---- MODULE Spec2Model ----
(***************************************************************************)
(* Recurring entry generation, financial projection and contract period   *)
(* rollover of the Project-Management backend, as a state machine.        *)
(*                                                                         *)
(* Dates are day ordinals (0 = FirstYear-01-01); YearOf/MonthOf/DayOf and  *)
(* MkDate convert as datetime.date does.  Amounts are whole currency       *)
(* units.  A database session (AsyncSessionLocal: autoflush=False,         *)
(* expire_on_commit=False) sees committed rows only; rows it added become  *)
(* visible, to itself and to others, at its commit.                       *)
(***************************************************************************)
EXTENDS Integers, Sequences, FiniteSets, TLC

(***************************************************************************)
(* Bounds of the model.                                                    *)
(***************************************************************************)
\* ledger rows ever inserted (ids 1..MaxId)
MaxId == 3
\* contract periods ever inserted (ids 1..MaxPeriodId)
MaxPeriodId == 3

(***************************************************************************)
(* Calendar (datetime.date).                                               *)
(***************************************************************************)
Years == 2023..2025

FirstYear == CHOOSE y \in Years : \A z \in Years : y <= z

LastYear == CHOOSE y \in Years : \A z \in Years : z <= y

IsLeap(y) == (y % 4 = 0 /\ y % 100 # 0) \/ (y % 400 = 0)

DaysInMonth(y, m) ==
    IF m = 2 THEN (IF IsLeap(y) THEN 29 ELSE 28)
    ELSE IF m \in {4, 6, 9, 11} THEN 30 ELSE 31

DaysInYear(y) == IF IsLeap(y) THEN 366 ELSE 365

RECURSIVE DaysBeforeYear(_)
DaysBeforeYear(y) ==
    IF y <= FirstYear THEN 0 ELSE DaysBeforeYear(y - 1) + DaysInYear(y - 1)

RECURSIVE DaysBeforeMonth(_, _)
DaysBeforeMonth(y, m) ==
    IF m <= 1 THEN 0 ELSE DaysBeforeMonth(y, m - 1) + DaysInMonth(y, m - 1)

\* date(y, m, d); the caller guarantees 1 <= d <= DaysInMonth(y, m)
MkDate(y, m, d) == DaysBeforeYear(y) + DaysBeforeMonth(y, m) + (d - 1)

MaxOrd == DaysBeforeYear(LastYear + 1) - 1

YearTab ==
    [o \in 0..MaxOrd |->
        CHOOSE y \in Years : DaysBeforeYear(y) <= o /\ o < DaysBeforeYear(y + 1)]

MonthTab ==
    [o \in 0..MaxOrd |->
        LET y == YearTab[o]
            r == o - DaysBeforeYear(y)
        IN  CHOOSE m \in 1..12 :
                DaysBeforeMonth(y, m) <= r /\ r < DaysBeforeMonth(y, m) + DaysInMonth(y, m)]

DayTab ==
    [o \in 0..MaxOrd |->
        o - DaysBeforeYear(YearTab[o]) - DaysBeforeMonth(YearTab[o], MonthTab[o]) + 1]

YearOf(o) == YearTab[o]

MonthOf(o) == MonthTab[o]

DayOf(o) == DayTab[o]

\* date(y, m, d) raises ValueError when the month has no day d
ValidDay(y, m, d) == d >= 1 /\ d <= DaysInMonth(y, m)

NoDate == -1

\* the year the scenarios are laid in: the leap year of the calendar
Y == CHOOSE y \in Years : IsLeap(y)

(***************************************************************************)
(* Recurring templates (RecurringTransactionTemplate rows).                *)
(***************************************************************************)
TemplateIds == {1, 2}

NO_END == "No End"

AFTER_OCCURRENCES == "After Occurrences"

ON_DATE == "On Date"

\* the project the templates and the ledger rows of the model belong to
ProjectId == 1

\* ExpenseCategory values a template or a row may carry
CLEANING == "CLEANING"

\* ExpenseCategory.OTHER, the default of Transaction.category
OTHER_CATEGORY == "OTHER"

\* Income rows and templates carry no category
NoCategory == "none"

\* file_path of a row without a proof document: None
NoFile == "none"

Template(dom, sd, et, ed, mo, ty, am) ==
    [project_id |-> ProjectId, day_of_month |-> dom, start_date |-> sd, end_type |-> et,
     end_date |-> ed, max_occurrences |-> mo, type |-> ty, amount |-> am,
     category |-> IF ty = "Expense" THEN CLEANING ELSE NoCategory]

\* the end conditions a template may carry (schemas: end_type, end_date, max_occurrences)
EndChoices ==
    { <<NO_END, NoDate, 0>>,
      <<AFTER_OCCURRENCES, NoDate, 1>>,
      <<ON_DATE, MkDate(Y, 2, 15), 0>> }

\* template 1 varies over day and end condition, template 2 is a fixed sibling
TemplateChoices(id) ==
    IF id = 1
    THEN { Template(dom, MkDate(Y, 1, 10), e[1], e[2], e[3], "Expense", 500) :
               dom \in {15, 31}, e \in EndChoices }
    ELSE { Template(15, MkDate(Y, 1, 10), NO_END, NoDate, 0, "Income", 200) }

(***************************************************************************)
(* Inputs of the operations.                                               *)
(***************************************************************************)
GenMonths == { <<Y, 1>>, <<Y, 2>>, <<Y, 4>>, <<Y + 1, 2>> }

\* target dates handed to generate_transactions_for_date
GenDates ==
    { MkDate(Y, 1, 15), MkDate(Y, 1, 31),
      MkDate(Y, 2, 15), MkDate(Y, 2, 29),
      MkDate(Y, 4, 30), MkDate(Y, 5, 1),
      MkDate(Y, 5, 31), MkDate(Y + 1, 2, 28) }

\* tx_date values of RecurringTransactionInstanceUpdate
UpdateDates == { MkDate(Y, 1, 15) }

\* amount values of RecurringTransactionInstanceUpdate
UpdateAmounts == { 300 }

NoValue == -1

VARIABLES
    templates,      \* template id -> row (immutable fields)
    active,         \* template id -> is_active
    transactions,   \* committed ledger rows
    nextId,         \* next primary key of the transactions table
    sess,           \* session -> state of the generation call it runs
    project,        \* the project row
    today,          \* date.today()
    fin,            \* what get_project_financial_data returned last
    periods,        \* committed ContractPeriod rows
    archives,       \* committed ArchivedContract rows
    nextPeriodId,   \* next primary key of the contract periods table
    rsess,          \* session -> state of the rollover call it runs
    rlog,           \* the outcomes of the last consecutive check_and_renew_contract calls
    resume,         \* the month batch last started: its month, the ledger before it, how it went
    reply,          \* the last read-only request and what it returned
    store           \* the projects, budgets and funds tables the dashboard reads

vars == <<templates, active, transactions, nextId, sess, project, today, fin,
          periods, archives, nextPeriodId, rsess, rlog, resume, reply, store>>

\* the contract side of the store, which generation and instance edits leave alone
contractVars == <<project, today, periods, archives, nextPeriodId, rsess, rlog, resume, reply, store>>

\* the contract side alone
rolloverVars == <<project, today, periods, archives, nextPeriodId, rsess, rlog, reply,
                  store>>

\* the ledger side of the store, which rollover reads but leaves alone
ledgerVars == <<templates, active, transactions, nextId, sess, fin, resume, reply, store>>

NoFin == [status_color |-> "none"]

\* no month batch has been started
NoResume == [ym |-> <<0, 0>>, before |-> {}, cancelled |-> FALSE, resumed |-> FALSE,
             done |-> FALSE]

\* no other project, budget or fund is stored
NoStore == [projects |-> <<>>, budgets |-> {}, funds |-> <<>>]

\* no read-only request has been made
NoReply == [op |-> "none"]

Sessions == {1, 2}

IdleSess ==
    [pc |-> "idle", mode |-> "none", target |-> NoDate, queue |-> <<>>,
     pending |-> <<>>, ym |-> <<0, 0>>, day |-> 0, all |-> <<>>]

RECURSIVE SeqOf(_)
\* a query result as a list, in primary-key order
SeqOf(S) ==
    IF S = {} THEN <<>>
    ELSE LET x == CHOOSE y \in S : \A z \in S : y <= z
         IN  <<x>> \o SeqOf(S \ {x})

(***************************************************************************)
(* RecurringTransactionRepository.get_templates_to_generate                *)
(***************************************************************************)
\* mutant: the templates query does not filter on is_active
get_templates_to_generate_any(target_date) ==
    { t \in TemplateIds :
        /\ templates[t].day_of_month = DayOf(target_date)
        /\ templates[t].start_date <= target_date }

get_templates_to_generate(target_date) ==
    { t \in TemplateIds :
        /\ active[t]
        /\ templates[t].day_of_month = DayOf(target_date)
        /\ templates[t].start_date <= target_date
        /\ \/ templates[t].end_type = NO_END
           \/ /\ templates[t].end_type = ON_DATE
              /\ templates[t].end_date # NoDate
              /\ templates[t].end_date >= target_date
           \/ templates[t].end_type = AFTER_OCCURRENCES }

\* mutant: the existence check finds nothing
existing_transaction_never(t, d) == FALSE

\* SELECT id FROM transactions WHERE recurring_template_id = t AND tx_date = d
existing_transaction(t, d) ==
    \E tx \in transactions : tx.recurring_template_id = t /\ tx.tx_date = d

\* mutant: the service does not look at end_date
should_create_always(t, target_date) == TRUE

\* the service-level end condition check of both generation passes
should_create(t, target_date) ==
    ~ ( /\ templates[t].end_type = ON_DATE
        /\ templates[t].end_date # NoDate
        /\ target_date > templates[t].end_date )

\* mutant: the row is not marked as generated
transaction_data_unmarked(t, target_date) ==
    [project_id |-> templates[t].project_id, recurring_template_id |-> t,
     tx_date |-> target_date, type |-> templates[t].type, amount |-> templates[t].amount,
     category |-> templates[t].category, is_generated |-> FALSE, from_fund |-> FALSE,
     file_path |-> NoFile, is_exceptional |-> FALSE]

\* transaction_data of a generated row; its id is assigned at the commit
transaction_data(t, target_date) ==
    [project_id |-> templates[t].project_id, recurring_template_id |-> t,
     tx_date |-> target_date, type |-> templates[t].type, amount |-> templates[t].amount,
     category |-> templates[t].category, is_generated |-> TRUE, from_fund |-> FALSE,
     file_path |-> NoFile, is_exceptional |-> FALSE]

\* the rows a commit of the pending list inserts
Inserted(pending) ==
    { [id |-> nextId + i - 1] @@ pending[i] : i \in 1..Len(pending) }

\* rows not yet inserted that the call of session s may still add
Reserved(s) ==
    IF sess[s].pc = "idle" THEN 0
    ELSE IF sess[s].mode = "date" THEN Len(sess[s].queue) + Len(sess[s].pending)
    ELSE Len(sess[s].all)

RECURSIVE SumReserved(_)
SumReserved(S) ==
    IF S = {} THEN 0
    ELSE LET s == CHOOSE x \in S : TRUE IN Reserved(s) + SumReserved(S \ {s})

\* the ids 1..MaxId suffice for a call that may add k rows
CanStart(k) == (nextId - 1) + SumReserved(Sessions) + k <= MaxId

(***************************************************************************)
(* RecurringTransactionService.generate_transactions_for_date              *)
(***************************************************************************)
\* the templates query, then the loop over its result
GenBegin(s, d) ==
    /\ sess[s].pc = "idle"
    /\ CanStart(Cardinality(get_templates_to_generate(d)))
    /\ sess' = [sess EXCEPT ![s] =
            [IdleSess EXCEPT !.pc = "date_loop", !.mode = "date", !.target = d,
                             !.queue = SeqOf(get_templates_to_generate(d))]]
    /\ UNCHANGED <<templates, active, transactions, nextId, contractVars>>
    /\ fin' = NoFin

\* one iteration of `for template in templates`
GenTemplate(s) ==
    /\ sess[s].pc = "date_loop"
    /\ sess[s].queue # <<>>
    /\ LET t == Head(sess[s].queue)
           d == sess[s].target
           create == ~existing_transaction(t, d) /\ should_create(t, d)
       IN  sess' = [sess EXCEPT
                ![s].queue = Tail(@),
                ![s].pending = IF create THEN Append(@, transaction_data(t, d)) ELSE @]
    /\ UNCHANGED <<templates, active, transactions, nextId, contractVars>>
    /\ fin' = NoFin

\* `if generated_transactions: await self.db.commit()` and the return
GenCommit(s) ==
    /\ sess[s].pc = "date_loop"
    /\ sess[s].queue = <<>>
    /\ transactions' = transactions \cup Inserted(sess[s].pending)
    /\ nextId' = nextId + Len(sess[s].pending)
    /\ IF sess[s].mode = "date"
       THEN sess' = [sess EXCEPT ![s] = IdleSess]
       ELSE sess' = [sess EXCEPT ![s].pc = "month_days", ![s].day = @ + 1,
                                 ![s].pending = <<>>, ![s].target = NoDate]
    /\ UNCHANGED <<templates, active, contractVars>>
    /\ fin' = NoFin

\* an iteration of `for template in templates` raises: the except clause logs
\* and re-raises, the call ends without its commit (a month call that made the
\* day call ends with it) and the rows added to the session are rolled back
GenTemplateFails(s) ==
    /\ sess[s].pc = "date_loop"
    /\ sess[s].queue # <<>>
    /\ sess' = [sess EXCEPT ![s] = IdleSess]
    /\ UNCHANGED <<templates, active, transactions, nextId, contractVars>>
    /\ fin' = NoFin

(***************************************************************************)
(* RecurringTransactionService.generate_transactions_for_month             *)
(***************************************************************************)
last_day(ym) == DaysInMonth(ym[1], ym[2])

\* the query for all active templates that opens the call
month_begin(s, ym) ==
    /\ sess[s].pc = "idle"
    /\ CanStart(Cardinality({ t \in TemplateIds : active[t] }))
    /\ sess' = [sess EXCEPT ![s] =
            [IdleSess EXCEPT !.pc = "month_days", !.mode = "month", !.ym = ym, !.day = 1,
                             !.all = SeqOf({ t \in TemplateIds : active[t] })]]
    /\ UNCHANGED <<templates, active, transactions, nextId>>
    /\ fin' = NoFin

MonthBegin(s, ym) == month_begin(s, ym) /\ UNCHANGED contractVars

\* the same call, with the batch it starts or takes up again noted
BatchBegin(s, ym) ==
    /\ month_begin(s, ym)
    /\ resume' = IF resume.cancelled /\ resume.ym = ym
                 THEN [resume EXCEPT !.cancelled = FALSE, !.resumed = TRUE]
                 ELSE [NoResume EXCEPT !.ym = ym, !.before = transactions]
    /\ UNCHANGED rolloverVars

\* the days from `day` on for which the templates query returns a row
DueDays(ym, day) ==
    { k \in day..last_day(ym) : get_templates_to_generate(MkDate(ym[1], ym[2], k)) # {} }

\* `for day in range(1, last_day + 1)`: the calls of generate_transactions_for_date.
\* A call that selects no template returns at once without touching the store,
\* so one step runs the loop up to the next day that selects one; after the
\* last day the overflow pass starts.
MonthDay(s) ==
    /\ sess[s].pc = "month_days"
    /\ LET due == DueDays(sess[s].ym, sess[s].day)
       IN  IF due # {}
           THEN LET k == CHOOSE x \in due : \A z \in due : x <= z
                    d == MkDate(sess[s].ym[1], sess[s].ym[2], k)
                IN  sess' = [sess EXCEPT ![s].pc = "date_loop", ![s].day = k,
                                         ![s].target = d,
                                         ![s].queue = SeqOf(get_templates_to_generate(d))]
           ELSE sess' = [sess EXCEPT ![s].pc = "month_overflow",
                                     ![s].day = last_day(sess[s].ym) + 1,
                                     ![s].queue = sess[s].all]
    /\ UNCHANGED <<templates, active, transactions, nextId, contractVars>>
    /\ fin' = NoFin

\* mutant: no template is taken to overflow the month
overflows_never(t, ld) == FALSE

\* `if template.day_of_month > last_day`
overflows(t, ld) == templates[t].day_of_month > ld

\* one iteration of the pass over templates whose day_of_month > last_day
MonthOverflow(s) ==
    /\ sess[s].pc = "month_overflow"
    /\ sess[s].queue # <<>>
    /\ LET t == Head(sess[s].queue)
           ld == last_day(sess[s].ym)
           d == MkDate(sess[s].ym[1], sess[s].ym[2], ld)
           create == /\ overflows(t, ld)
                     /\ ~existing_transaction(t, d)
                     /\ templates[t].start_date <= d
                     /\ should_create(t, d)
       IN  sess' = [sess EXCEPT
                ![s].queue = Tail(@),
                ![s].pending = IF create THEN Append(@, transaction_data(t, d)) ELSE @]
    /\ UNCHANGED <<templates, active, transactions, nextId, contractVars>>
    /\ fin' = NoFin

\* the closing commit of the month call and its return
month_commit(s) ==
    /\ sess[s].pc = "month_overflow"
    /\ sess[s].queue = <<>>
    /\ transactions' = transactions \cup Inserted(sess[s].pending)
    /\ nextId' = nextId + Len(sess[s].pending)
    /\ sess' = [sess EXCEPT ![s] = IdleSess]
    /\ UNCHANGED <<templates, active>>
    /\ fin' = NoFin

MonthCommit(s) == month_commit(s) /\ UNCHANGED contractVars

\* the same return, with the batch noted as run to completion
BatchCommit(s) ==
    /\ month_commit(s)
    /\ resume' = [resume EXCEPT !.done = TRUE]
    /\ UNCHANGED rolloverVars

\* the month call is cancelled, or fails, between two of its day calls: the
\* rows of the day calls made so far are committed, nothing is pending
BatchCancelled(s) ==
    /\ sess[s].pc = "month_days"
    /\ sess' = [sess EXCEPT ![s] = IdleSess]
    /\ resume' = [resume EXCEPT !.cancelled = TRUE]
    /\ UNCHANGED <<templates, active, transactions, nextId, rolloverVars>>
    /\ fin' = NoFin

(***************************************************************************)
(* Instance-level edits and the template switch                            *)
(***************************************************************************)
\* the fields a RecurringTransactionInstanceUpdate sets (exclude_unset)
apply_update(tx, new_date, new_amount) ==
    [tx EXCEPT !.tx_date = IF new_date = NoValue THEN @ ELSE new_date,
               !.amount = IF new_amount = NoValue THEN @ ELSE new_amount]

update_transaction_instance(id, new_date, new_amount) ==
    /\ \E tx \in transactions :
          /\ tx.id = id
          /\ tx.recurring_template_id # 0
          /\ transactions' = (transactions \ {tx}) \cup {apply_update(tx, new_date, new_amount)}
    /\ UNCHANGED <<templates, active, nextId, sess, contractVars>>
    /\ fin' = NoFin

delete_transaction_instance(id) ==
    /\ \E tx \in transactions :
          /\ tx.id = id
          /\ tx.recurring_template_id # 0
          /\ transactions' = transactions \ {tx}
    /\ UNCHANGED <<templates, active, nextId, sess, contractVars>>
    /\ fin' = NoFin

\* RecurringTransactionRepository.update with the amount set (exclude_unset)
update_template(t, amount) ==
    /\ templates' = [templates EXCEPT ![t].amount = amount]
    /\ UNCHANGED <<active, transactions, nextId, sess, contractVars>>
    /\ fin' = NoFin

deactivate_template(t) ==
    /\ active[t]
    /\ active' = [active EXCEPT ![t] = FALSE]
    /\ UNCHANGED <<templates, transactions, nextId, sess, contractVars>>
    /\ fin' = NoFin

(***************************************************************************)
(* RecurringTransactionService.get_future_occurrences                      *)
(***************************************************************************)
\* d + relativedelta(months=1): the same day a month later, clamped to the
\* length of that month
plus_one_month(d) ==
    LET y == IF MonthOf(d) = 12 THEN YearOf(d) + 1 ELSE YearOf(d)
        m == IF MonthOf(d) = 12 THEN 1 ELSE MonthOf(d) + 1
    IN  MkDate(y, m, IF DayOf(d) <= DaysInMonth(y, m) THEN DayOf(d) ELSE DaysInMonth(y, m))

\* the end condition test of one occurrence
should_generate(t, occurrence_date) ==
    IF /\ templates[t].end_type = ON_DATE
       /\ templates[t].end_date # NoDate
       /\ occurrence_date > templates[t].end_date
    THEN FALSE
    ELSE IF /\ templates[t].end_type = AFTER_OCCURRENCES
            /\ templates[t].max_occurrences # 0
            /\ Cardinality({ tx \in transactions : tx.recurring_template_id = t })
                  >= templates[t].max_occurrences
    THEN FALSE
    ELSE TRUE

RECURSIVE future_occurrences(_, _, _, _)
\* `for i in range(months_ahead)` from current_date on, with the occurrences
\* found so far; date(y, m, day_of_month) raises ValueError when the month has
\* no such day, and the call ends with it
future_occurrences(t, current_date, months_left, occurrences) ==
    IF months_left = 0 THEN [raised |-> FALSE, occurrences |-> occurrences]
    ELSE LET base == IF DayOf(current_date) > templates[t].day_of_month
                     THEN plus_one_month(current_date) ELSE current_date
         IN  IF ~ValidDay(YearOf(base), MonthOf(base), templates[t].day_of_month)
             THEN [raised |-> TRUE, occurrences |-> <<>>]
             ELSE LET occurrence_date ==
                          MkDate(YearOf(base), MonthOf(base), templates[t].day_of_month)
                  IN  future_occurrences(t, plus_one_month(occurrence_date), months_left - 1,
                          IF should_generate(t, occurrence_date)
                          THEN Append(occurrences, occurrence_date) ELSE occurrences)

\* the handler of GET /{template_id}/future-occurrences
get_future_occurrences(t, start_date, months_ahead) ==
    /\ reply' = [op |-> "get_future_occurrences", template_id |-> t,
                 start_date |-> start_date, months_ahead |-> months_ahead,
                 result |-> future_occurrences(t, start_date, months_ahead, <<>>)]
    /\ UNCHANGED <<templates, active, transactions, nextId, sess, fin, project, today,
                   periods, archives, nextPeriodId, rsess, rlog, resume, store>>

(***************************************************************************)
(* Projection: project_service.py                                          *)
(***************************************************************************)
Max(a, b) == IF a >= b THEN a ELSE b

Min(a, b) == IF a <= b THEN a ELSE b

\* d - relativedelta(years=1): same month and day a year earlier, the day
\* clamped to the length of that month
minus_one_year(d) ==
    LET y == YearOf(d) - 1
        m == MonthOf(d)
    IN  MkDate(y, m, Min(DayOf(d), DaysInMonth(y, m)))

calculate_start_date(project_start_date) ==
    LET one_year_ago == minus_one_year(today)
    IN  IF project_start_date # NoDate
        THEN Max(project_start_date, one_year_ago)
        ELSE one_year_ago

\* months are counted as year * 12 + (month - 1)
MonthIndex(d) == YearOf(d) * 12 + (MonthOf(d) - 1)

\* the safety stop of the month loop: `if month_count > 120: break`
max_month_count == 120

\* the occurrence of day_of_month in month k: the day itself, or the last day
\* of the month when the month is shorter (the ValueError branch)
occurrence_date(k, day_of_month) ==
    LET y == k \div 12
        m == (k % 12) + 1
    IN  IF ValidDay(y, m, day_of_month)
        THEN MkDate(y, m, day_of_month)
        ELSE MkDate(y, m, DaysInMonth(y, m))

\* the occurrences of template t the month loop visits inside [start_date, end_date]
occurrences_in_window(t, start_date, end_date) ==
    LET template_start == Max(templates[t].start_date, start_date)
        effective_end ==
            IF templates[t].end_type = ON_DATE /\ templates[t].end_date # NoDate
            THEN Min(templates[t].end_date, end_date)
            ELSE end_date
    IN  IF template_start > effective_end THEN {}
        ELSE LET first == MonthIndex(template_start)
                 last == Min(MonthIndex(effective_end), first + max_month_count)
             IN  { d \in { occurrence_date(k, templates[t].day_of_month) : k \in first..last } :
                       d >= template_start /\ d <= effective_end }

\* what one occurrence may add: the amount of a row of the template dated on
\* it (the query takes any one of them, LIMIT 1), else the template amount
occurrence_amounts(t, d) ==
    LET rows == { tx \in transactions : tx.recurring_template_id = t /\ tx.tx_date = d }
    IN  IF rows # {} THEN { tx.amount : tx \in rows } ELSE { templates[t].amount }

RECURSIVE SumChoices(_)
\* the totals that summing one amount per (template, occurrence) pair can give
SumChoices(pairs) ==
    IF pairs = {} THEN {0}
    ELSE LET p == CHOOSE x \in pairs : TRUE
         IN  { a + r : a \in occurrence_amounts(p[1], p[2]), r \in SumChoices(pairs \ {p}) }

\* the values calculate_recurring_transactions_amount may return
calculate_recurring_transactions_amount(start_date, end_date, transaction_type) ==
    SumChoices(UNION { { <<t, d>> : d \in occurrences_in_window(t, start_date, end_date) } :
                          t \in { x \in TemplateIds :
                                     templates[x].type = transaction_type /\ active[x] } })

RECURSIVE SumAmounts(_)
SumAmounts(rows) ==
    IF rows = {} THEN 0
    ELSE LET r == CHOOSE x \in rows : TRUE IN r.amount + SumAmounts(rows \ {r})

\* coalesce(sum(amount), 0) of the rows of a type in the window, fund rows excluded
actual_sum(transaction_type, start_date, end_date) ==
    SumAmounts({ tx \in transactions :
                    /\ tx.type = transaction_type
                    /\ tx.tx_date >= start_date
                    /\ tx.tx_date <= end_date
                    /\ ~tx.from_fund })

\* `days_in_year = 365`; money in a result is kept in 1/365 units so that the
\* day-prorated annual budget stays a whole number
days_in_year == 365

\* the inclusive count of months from the month of `from` to the month of `to`
month_count(from, to) == Max(0, MonthIndex(to) - MonthIndex(from) + 1)

\* mutant: the annual budget is added to the monthly one
budget_income_both(calculation_start_date) ==
    LET start_month == IF project.start_date # NoDate
                       THEN project.start_date ELSE calculation_start_date
    IN  days_in_year * project.budget_monthly * month_count(start_month, today)
           + project.budget_annual * ((today - calculation_start_date) + 1)

\* budget_income, in 1/365 units
budget_income(calculation_start_date) ==
    IF project.budget_monthly > 0
    THEN LET start_month == IF project.start_date # NoDate
                            THEN project.start_date ELSE calculation_start_date
         IN  days_in_year * project.budget_monthly * month_count(start_month, today)
    ELSE IF project.budget_annual > 0
    THEN project.budget_annual * ((today - calculation_start_date) + 1)
    ELSE 0

\* n / d rounded to the nearest integer, halves to the even one (d > 0)
RoundDiv(n, d) ==
    LET q == n \div d
        r == n % d
    IN  IF 2 * r < d THEN q
        ELSE IF 2 * r > d THEN q + 1
        ELSE IF q % 2 = 0 THEN q ELSE q + 1

\* the result of get_project_financial_data, given what the two calls of
\* calculate_recurring_transactions_amount returned.  Money is in 1/365 units,
\* profit_percent in tenths of a percent (round(profit_percent, 1)).
financial_data(recurring_income, recurring_expense) ==
    LET start == calculate_start_date(project.start_date)
        total_income == days_in_year * (actual_sum("Income", start, today) + recurring_income)
                            + budget_income(start)
        total_expense == days_in_year * (actual_sum("Expense", start, today) + recurring_expense)
        profit == total_income - total_expense
    IN  [ total_value |-> profit,
          income_month_to_date |-> total_income,
          expense_month_to_date |-> total_expense,
          profit_percent |-> IF total_income > 0
                             THEN RoundDiv(profit * 1000, total_income) ELSE 0,
          status_color |-> IF total_income > 0 /\ profit * 100 >= 10 * total_income
                           THEN "green"
                           ELSE IF total_income > 0 /\ profit * 100 <= (-10) * total_income
                           THEN "red"
                           ELSE "yellow" ]

\* round(profit_percent, 1) in tenths: the nearest tenth; a value that lies
\* exactly between two tenths is a binary float just above or below the tie,
\* so either neighbour can come out
round_1(r) ==
    IF r.income_month_to_date > 0
       /\ 2 * ((r.total_value * 1000) % r.income_month_to_date) = r.income_month_to_date
    THEN { (r.total_value * 1000) \div r.income_month_to_date,
           ((r.total_value * 1000) \div r.income_month_to_date) + 1 }
    ELSE { r.profit_percent }

\* the results get_project_financial_data may return in the current state
financial_results ==
    LET start == calculate_start_date(project.start_date)
    IN  UNION { { [financial_data(ri, re) EXCEPT !.profit_percent = pp] :
                    pp \in round_1(financial_data(ri, re)) } :
                ri \in calculate_recurring_transactions_amount(start, today, "Income"),
                re \in calculate_recurring_transactions_amount(start, today, "Expense") }

\* ProjectService.get_project_financial_data for the project
get_project_financial_data ==
    /\ \A s \in Sessions : sess[s].pc = "idle"
    /\ fin' \in financial_results
    /\ UNCHANGED <<templates, active, transactions, nextId, sess, contractVars>>

(***************************************************************************)
(* Dashboard: ReportService.get_dashboard_snapshot                         *)
(***************************************************************************)
\* the steps of the per-project loop that run inside try/except
SubComputations ==
    { "income", "expense", "missing_proof", "unpaid_recurring", "category_budget", "fund" }

\* no step fails
NoFault == <<0, "none">>

\* a project without a fund
NoFund == -1000000

\* coalesce(sum(amount), 0) of a project's rows of a type in the window, fund rows excluded
dashboard_sum(project_id, transaction_type, start_date, end_date) ==
    SumAmounts({ tx \in transactions :
                    /\ tx.project_id = project_id
                    /\ tx.type = transaction_type
                    /\ tx.tx_date >= start_date
                    /\ tx.tx_date <= end_date
                    /\ ~tx.from_fund })

\* project_service.calculate_monthly_income_amount: the monthly amount for every
\* month from the month of start_date to the month of end_date, both included
calculate_monthly_income_amount(monthly_income, start_date, end_date) ==
    monthly_income * month_count(start_date, end_date)

\* BudgetRepository.calculate_spending_for_budget: the expenses of the budget's
\* category inside the budget period, fund rows excluded
calculate_spending_for_budget(budget, as_of_date) ==
    SumAmounts({ tx \in transactions :
                    /\ tx.project_id = budget.project_id
                    /\ tx.type = "Expense"
                    /\ tx.category = budget.category
                    /\ tx.tx_date >= budget.start_date
                    /\ tx.tx_date <= (IF budget.end_date # NoDate THEN budget.end_date
                                      ELSE as_of_date)
                    /\ ~tx.from_fund })

\* BudgetService.check_category_budget_alerts: for each active budget of the
\* project, `warning` from 70% consumed on and `overrun` above 100%
check_category_budget_alerts(project_id, as_of_date) ==
    { [project_id |-> b.project_id, category |-> b.category,
       severity |-> IF calculate_spending_for_budget(b, as_of_date) > b.amount
                    THEN "overrun" ELSE "warning"] :
        b \in { x \in store.budgets :
                   /\ x.project_id = project_id
                   /\ x.is_active
                   /\ x.amount > 0
                   /\ calculate_spending_for_budget(x, as_of_date) * 100 >= 70 * x.amount } }

\* the expected budget of the period, in 1/365 units: the monthly budget for
\* every month since the start, else the annual budget prorated by days
yearly_budget(project_row, calculation_start_date) ==
    IF project_row.budget_monthly > 0
    THEN days_in_year * project_row.budget_monthly
            * month_count(IF project_row.start_date # NoDate THEN project_row.start_date
                          ELSE calculation_start_date, today)
    ELSE IF project_row.budget_annual > 0
    THEN project_row.budget_annual * ((today - calculation_start_date) + 1)
    ELSE 0

\* the object the name `project` refers to inside `for proj_data in
\* projects_data`: the loop variable the pre-load loop left behind, which is the
\* last project of the list
loop_project(proj_data, last) == last

\* the entry of one project and its alert flags, from the sums of the iteration
project_entry(proj_data, project_row, failed, calculation_start_date, project_total_income, yearly_expense, expected) ==
    LET profit == project_total_income - yearly_expense
        overrun == expected > 0 /\ days_in_year * yearly_expense > expected
        warning == /\ expected > 0
                   /\ ~overrun
                   /\ days_in_year * yearly_expense * 100 >= 70 * expected
    IN  [ id |-> proj_data.id,
          income_month_to_date |-> project_total_income,
          expense_month_to_date |-> yearly_expense,
          profit_percent |-> IF project_total_income > 0
                             THEN RoundDiv(profit * 1000, project_total_income) ELSE 0,
          status_color |-> IF project_total_income > 0 /\ profit * 100 >= 10 * project_total_income
                           THEN "green"
                           ELSE IF project_total_income > 0
                                   /\ profit * 100 <= (-10) * project_total_income
                           THEN "red"
                           ELSE "yellow",
          budget_monthly |-> project_row.budget_monthly,
          budget_annual |-> project_row.budget_annual,
          alert_id |-> project_row.id,
          budget_overrun |-> overrun,
          budget_warning |-> warning,
          missing_proof |->
              /\ "missing_proof" \notin failed
              /\ \E tx \in transactions :
                    /\ tx.project_id = project_row.id
                    /\ tx.file_path = NoFile
                    /\ tx.tx_date >= calculation_start_date
                    /\ tx.tx_date <= today
                    /\ ~tx.from_fund,
          unpaid_recurring |->
              /\ "unpaid_recurring" \notin failed
              /\ \E tx \in transactions :
                    /\ tx.project_id = project_row.id
                    /\ tx.type = "Expense"
                    /\ ~tx.is_exceptional
                    /\ tx.tx_date < today
                    /\ tx.file_path = NoFile
                    /\ ~tx.from_fund,
          category_budget_alerts |->
              IF "category_budget" \in failed THEN {}
              ELSE check_category_budget_alerts(project_row.id, today),
          negative_fund_balance |->
              /\ "fund" \notin failed
              /\ store.funds[project_row.id] # NoFund
              /\ store.funds[project_row.id] < 0,
          raised |-> failed # {} ]

\* the sums of one iteration: the income (the monthly budget for every month
\* when the project has one, else the income rows), the expenses and the
\* expected budget
project_sums(proj_data, project_row, failed, calculation_start_date) ==
    project_entry(proj_data, project_row, failed, calculation_start_date,
        IF project_row.budget_monthly > 0
        THEN calculate_monthly_income_amount(
                 project_row.budget_monthly,
                 IF project_row.start_date # NoDate THEN project_row.start_date
                 ELSE IF project_row.created_at # NoDate THEN project_row.created_at
                 ELSE calculation_start_date,
                 today)
        ELSE IF "income" \in failed THEN 0
        ELSE dashboard_sum(proj_data.id, "Income", calculation_start_date, today),
        IF "expense" \in failed THEN 0
        ELSE dashboard_sum(proj_data.id, "Expense", calculation_start_date, today),
        yearly_budget(project_row, calculation_start_date))

\* one iteration of `for proj_data in projects_data`.  `failed` holds the steps
\* that raise in this iteration: each is caught, the session is rolled back and
\* the step counts as zero or as no alert.  The rollback expires the loaded
\* Project objects, so the next unguarded read of an attribute of `project` (at
\* the latest project.budget_monthly when project_data is built) raises
\* MissingGreenlet, which nothing catches.
project_figures(proj_data, last, failed) ==
    project_sums(proj_data, loop_project(proj_data, last), failed,
                 IF proj_data.start_date # NoDate THEN proj_data.start_date
                 ELSE minus_one_year(today))

RECURSIVE appended(_, _, _)
\* the list the iterations 1..i built by appending ids[k] whenever flags[k] holds
appended(ids, flags, i) ==
    IF i = 0 THEN <<>>
    ELSE appended(ids, flags, i - 1) \o (IF flags[i] THEN <<ids[i]>> ELSE <<>>)

RECURSIVE SumField(_, _)
SumField(values, i) == IF i = 0 THEN 0 ELSE SumField(values, i - 1) + values[i]

\* the active projects, in the order of the query
active_projects == SelectSeq(store.projects, LAMBDA p : p.is_active)

\* the iterations of the main loop over the projects, in order
loop_figures(projects, fault) ==
    [i \in 1..Len(projects) |->
        project_figures(projects[i], projects[Len(projects)],
                        IF fault[1] = i THEN {fault[2]} ELSE {})]

\* the reply built from the n iterations
snapshot_reply(n, figures) ==
    LET ids == [i \in 1..n |-> figures[i].alert_id]
    IN  IF \E i \in 1..n : figures[i].raised
        THEN [raised |-> TRUE]
        ELSE [ raised |-> FALSE,
               projects |-> [i \in 1..n |->
                   [id |-> figures[i].id,
                    income_month_to_date |-> figures[i].income_month_to_date,
                    expense_month_to_date |-> figures[i].expense_month_to_date,
                    profit_percent |-> figures[i].profit_percent,
                    status_color |-> figures[i].status_color,
                    budget_monthly |-> figures[i].budget_monthly,
                    budget_annual |-> figures[i].budget_annual]],
               budget_overrun |->
                   appended(ids, [i \in 1..n |-> figures[i].budget_overrun], n),
               budget_warning |->
                   appended(ids, [i \in 1..n |-> figures[i].budget_warning], n),
               missing_proof |->
                   appended(ids, [i \in 1..n |-> figures[i].missing_proof], n),
               unpaid_recurring |->
                   appended(ids, [i \in 1..n |-> figures[i].unpaid_recurring], n),
               negative_fund_balance |->
                   appended(ids, [i \in 1..n |-> figures[i].negative_fund_balance], n),
               category_budget_alerts |->
                   [i \in 1..n |-> figures[i].category_budget_alerts],
               total_income |->
                   SumField([i \in 1..n |-> figures[i].income_month_to_date], n),
               total_expense |->
                   SumField([i \in 1..n |-> figures[i].expense_month_to_date], n) ]

\* what get_dashboard_snapshot returns when the step fault[2] of the iteration
\* fault[1] raises (no step raises with NoFault); the category breakdown and
\* the parent/child grouping of the reply are left out
dashboard_snapshot(fault) ==
    snapshot_reply(Len(active_projects), loop_figures(active_projects, fault))

\* the handler of the dashboard request
get_dashboard_snapshot(fault) ==
    /\ reply' = [op |-> "get_dashboard_snapshot", fault |-> fault,
                 result |-> dashboard_snapshot(fault)]
    /\ UNCHANGED <<templates, active, transactions, nextId, sess, fin, project, today,
                   periods, archives, nextPeriodId, rsess, rlog, resume, store>>

(***************************************************************************)
(* Contract period rollover: contract_period_service.py                    *)
(***************************************************************************)
\* the contract dates a project may have when rollover is first called
ContractChoices ==
    { <<MkDate(Y, 12, 10), MkDate(Y, 12, 19)>>, <<MkDate(Y, 12, 28), MkDate(Y, 12, 28)>>,
      <<MkDate(Y, 12, 10), NoDate>> }

\* the days on which rollover runs
TodayChoices == { MkDate(Y, 12, 15), MkDate(Y, 12, 19), MkDate(Y, 12, 29), MkDate(Y + 1, 1, 15) }

\* the end dates a user closes a year with
CloseDates == { MkDate(Y, 12, 5), MkDate(Y, 12, 19), MkDate(Y, 12, 31) }

\* a manually entered ledger row
ManualRow(id, tx_date, type, amount, from_fund) ==
    [id |-> id, project_id |-> ProjectId, recurring_template_id |-> 0, tx_date |-> tx_date,
     type |-> type, amount |-> amount,
     category |-> IF type = "Expense" THEN OTHER_CATEGORY ELSE NoCategory,
     is_generated |-> FALSE, from_fund |-> from_fund,
     file_path |-> NoFile, is_exceptional |-> FALSE]

\* the ledgers a project may have when rollover is first called
LedgerChoices ==
    { {},
      { ManualRow(1, MkDate(Y, 12, 12), "Income", 1000, FALSE),
        ManualRow(2, MkDate(Y, 12, 18), "Expense", 400, FALSE),
        ManualRow(3, MkDate(Y, 12, 22), "Expense", 50, TRUE) } }

IdleRoll == [pc |-> "idle", op |-> "none", p |-> [start_date |-> NoDate, end_date |-> NoDate],
             arg |-> NoDate, created |-> FALSE, per |-> 0]

\* ContractPeriodRepository.get_by_exact_dates: the stored periods with these dates
get_by_exact_dates(start_date, end_date) ==
    { per \in periods : per.start_date = start_date /\ per.end_date = end_date }

\* ContractPeriodRepository.count_by_year
count_by_year(contract_year) ==
    Cardinality({ per \in periods : per.contract_year = contract_year })

\* _calculate_financial_summary: the rows of the range, fund rows excluded
calculate_financial_summary(start_date, end_date) ==
    LET income == actual_sum("Income", start_date, end_date)
        expense == actual_sum("Expense", start_date, end_date)
    IN  [income |-> income, expense |-> expense, profit |-> income - expense]

\* the ContractPeriod row create_contract_period builds
contract_period(start_date, end_date) ==
    LET summary == calculate_financial_summary(start_date, end_date)
    IN  [id |-> nextPeriodId, start_date |-> start_date, end_date |-> end_date,
         contract_year |-> YearOf(end_date),
         year_index |-> count_by_year(YearOf(end_date)) + 1,
         total_income |-> summary.income, total_expense |-> summary.expense,
         total_profit |-> summary.profit]

\* the ArchivedContract row _create_read_only_archive builds
archived_contract(per) ==
    [contract_period_id |-> per.id, start_date |-> per.start_date,
     end_date |-> per.end_date, total_income |-> per.total_income,
     total_expense |-> per.total_expense, total_profit |-> per.total_profit,
     transaction_count |->
         Cardinality({ tx \in transactions :
                          /\ tx.tx_date >= per.start_date
                          /\ tx.tx_date <= per.end_date
                          /\ ~tx.from_fund }),
     is_read_only |-> TRUE]

\* mutant: the new period is one day longer than the old one
next_period_dates_longer(start_date, end_date) ==
    [start_date |-> end_date + 1, end_date |-> (end_date + 1) + (end_date - start_date) + 1]

\* mutant: the dates of the project do not move
next_period_dates_same(start_date, end_date) ==
    [start_date |-> start_date, end_date |-> end_date]

\* the project dates of the period that follows [start_date, end_date]
next_period_dates(start_date, end_date) ==
    LET contract_duration == end_date - start_date
        new_start_date == end_date + 1
    IN  [start_date |-> new_start_date, end_date |-> new_start_date + contract_duration]

\* mutant: a contract counts as ended whatever its end_date
contract_ended_always(end_date) == TRUE

\* mutant: a contract that ends today does not count as ended
contract_ended_strict(end_date) == end_date < today

\* the contract has ended: not `project.end_date > today`
contract_ended(end_date) == ~(end_date > today)

\* mutant: the period is taken to be archived already
must_archive_never(existing) == FALSE

\* `if not existing_period`: archive before the dates move
must_archive(existing) == existing = {}

\* the last two outcomes of consecutive check_and_renew_contract calls
Logged(outcome) == IF Len(rlog) < 2 THEN Append(rlog, outcome) ELSE <<rlog[2], outcome>>

\* periods not yet inserted that running calls may still add
PeriodsReserved ==
    Cardinality({ s \in Sessions : rsess[s].pc \in {"renew_check", "renew_create",
                                                    "close_check", "close_create"} })

\* check_and_renew_contract: load the project and decide whether to renew
RenewBegin(s) ==
    /\ rsess[s].pc = "idle"
    /\ IF /\ project.is_active
          /\ project.end_date # NoDate
          /\ contract_ended(project.end_date)
          /\ project.start_date # NoDate
       THEN /\ (nextPeriodId - 1) + PeriodsReserved + 1 <= MaxPeriodId
            /\ rsess' = [rsess EXCEPT ![s] =
                   [IdleRoll EXCEPT !.pc = "renew_check", !.op = "check_and_renew_contract",
                                    !.p = [start_date |-> project.start_date,
                                           end_date |-> project.end_date]]]
            /\ rlog' = rlog
       ELSE /\ rsess' = rsess
            /\ rlog' = Logged([before |-> <<project.start_date, project.end_date>>,
                               renewed |-> FALSE, created |-> FALSE])
    /\ UNCHANGED <<project, today, periods, archives, nextPeriodId, ledgerVars>>

\* the duplicate check on the exact dates
RenewCheck(s) ==
    /\ rsess[s].pc = "renew_check"
    /\ rsess' = [rsess EXCEPT ![s].pc =
            IF must_archive(get_by_exact_dates(rsess[s].p.start_date, rsess[s].p.end_date))
            THEN "renew_create" ELSE "renew_shift"]
    /\ UNCHANGED <<project, today, periods, archives, nextPeriodId, rlog, ledgerVars>>

\* _get_budgets_snapshot and create_contract_period: the period row is committed
RenewCreate(s) ==
    /\ rsess[s].pc = "renew_create"
    /\ periods' = periods \cup {contract_period(rsess[s].p.start_date, rsess[s].p.end_date)}
    /\ nextPeriodId' = nextPeriodId + 1
    /\ rsess' = [rsess EXCEPT ![s].pc = "renew_archive", ![s].created = TRUE,
                              ![s].per = nextPeriodId]
    /\ UNCHANGED <<project, today, archives, rlog, ledgerVars>>

\* _create_read_only_archive for the period just created
RenewArchive(s) ==
    /\ rsess[s].pc = "renew_archive"
    /\ \E per \in periods :
          /\ per.id = rsess[s].per
          /\ archives' = archives \cup {archived_contract(per)}
    /\ rsess' = [rsess EXCEPT ![s].pc = "renew_shift"]
    /\ UNCHANGED <<project, today, periods, nextPeriodId, rlog, ledgerVars>>

\* the new dates are set on the project and committed; the project is returned
RenewShift(s) ==
    /\ rsess[s].pc = "renew_shift"
    /\ LET new == next_period_dates(rsess[s].p.start_date, rsess[s].p.end_date)
       IN  project' = [project EXCEPT !.start_date = new.start_date,
                                      !.end_date = new.end_date]
    /\ rlog' = Logged([before |-> <<rsess[s].p.start_date, rsess[s].p.end_date>>,
                       renewed |-> TRUE, created |-> rsess[s].created])
    /\ rsess' = [rsess EXCEPT ![s] = IdleRoll]
    /\ UNCHANGED <<today, periods, archives, nextPeriodId, ledgerVars>>

\* an archival step raises (budget snapshot, totals, persisting the period, the
\* read-only archive entry): the call ends there and the session is rolled back.
\* A period row added by this call stays when the repository committed it and
\* goes with the rollback when it only flushed it.
ArchivalFails(s) ==
    /\ rsess[s].pc \in {"renew_create", "renew_archive", "close_create", "close_archive"}
    /\ periods' \in {periods, { per \in periods : per.id # rsess[s].per }}
    /\ rsess' = [rsess EXCEPT ![s] = IdleRoll]
    /\ rlog' = <<>>
    /\ UNCHANGED <<project, today, archives, nextPeriodId, ledgerVars>>

\* close_year_manually: load the project (ValueError when inactive or undated)
CloseBegin(s, end_date) ==
    /\ rsess[s].pc = "idle"
    /\ (nextPeriodId - 1) + PeriodsReserved + 1 <= MaxPeriodId
    /\ project.is_active
    /\ project.start_date # NoDate
    /\ rsess' = [rsess EXCEPT ![s] =
            [IdleRoll EXCEPT !.pc = "close_check", !.op = "close_year_manually",
                             !.p = [start_date |-> project.start_date,
                                    end_date |-> project.end_date],
                             !.arg = end_date]]
    /\ rlog' = <<>>
    /\ UNCHANGED <<project, today, periods, archives, nextPeriodId, ledgerVars>>

\* the duplicate check; an existing period gets its archive entry if it has
\* none, and is returned without moving the dates
CloseCheck(s) ==
    /\ rsess[s].pc = "close_check"
    /\ LET existing == get_by_exact_dates(rsess[s].p.start_date, rsess[s].arg)
       IN  IF existing # {}
           THEN \E per \in existing :
                   /\ archives' =
                         IF \E a \in archives : a.contract_period_id = per.id
                         THEN archives ELSE archives \cup {archived_contract(per)}
                   /\ rsess' = [rsess EXCEPT ![s] = IdleRoll]
           ELSE /\ archives' = archives
                /\ rsess' = [rsess EXCEPT ![s].pc = "close_create"]
    /\ UNCHANGED <<project, today, periods, nextPeriodId, rlog, ledgerVars>>

CloseCreate(s) ==
    /\ rsess[s].pc = "close_create"
    /\ periods' = periods \cup {contract_period(rsess[s].p.start_date, rsess[s].arg)}
    /\ nextPeriodId' = nextPeriodId + 1
    /\ rsess' = [rsess EXCEPT ![s].pc = "close_archive", ![s].created = TRUE,
                              ![s].per = nextPeriodId]
    /\ UNCHANGED <<project, today, archives, rlog, ledgerVars>>

CloseArchive(s) ==
    /\ rsess[s].pc = "close_archive"
    /\ \E per \in periods :
          /\ per.id = rsess[s].per
          /\ archives' = archives \cup {archived_contract(per)}
    /\ rsess' = [rsess EXCEPT ![s].pc = "close_shift"]
    /\ UNCHANGED <<project, today, periods, nextPeriodId, rlog, ledgerVars>>

CloseShift(s) ==
    /\ rsess[s].pc = "close_shift"
    /\ LET new == next_period_dates(rsess[s].p.start_date, rsess[s].arg)
       IN  project' = [project EXCEPT !.start_date = new.start_date,
                                      !.end_date = new.end_date]
    /\ rsess' = [rsess EXCEPT ![s] = IdleRoll]
    /\ UNCHANGED <<today, periods, archives, nextPeriodId, rlog, ledgerVars>>

(***************************************************************************)
(* Specifications                                                          *)
(***************************************************************************)
Init ==
    /\ templates \in { f \in [TemplateIds -> UNION { TemplateChoices(i) : i \in TemplateIds }] :
                          \A i \in TemplateIds : f[i] \in TemplateChoices(i) }
    /\ active = [t \in TemplateIds |-> TRUE]
    /\ transactions = {}
    /\ nextId = 1
    /\ sess = [s \in Sessions |-> IdleSess]
    /\ project = [start_date |-> MkDate(Y, 1, 1), end_date |-> MkDate(Y, 12, 31),
                  is_active |-> TRUE, budget_monthly |-> 0, budget_annual |-> 0]
    /\ today = MkDate(Y, 3, 15)
    /\ fin = NoFin
    /\ periods = {}
    /\ archives = {}
    /\ nextPeriodId = 1
    /\ rsess = [s \in Sessions |-> IdleRoll]
    /\ rlog = <<>>
    /\ resume = NoResume
    /\ reply = NoReply
    /\ store = NoStore

\* no generation call is in progress
AllIdle == \A s \in Sessions : sess[s].pc = "idle"

\* the request handlers of the instance endpoints, run between generation calls
UpdateInstance(id, new_date, new_amount) ==
    AllIdle /\ update_transaction_instance(id, new_date, new_amount)

DeleteInstance(id) == AllIdle /\ delete_transaction_instance(id)

Generate(s) ==
    \/ \E d \in GenDates : GenBegin(s, d)
    \/ GenTemplate(s)
    \/ GenCommit(s)
    \/ \E ym \in GenMonths : MonthBegin(s, ym)
    \/ MonthDay(s)
    \/ MonthOverflow(s)
    \/ MonthCommit(s)

\* one session: calls follow each other
Next ==
    \/ Generate(1)
    \/ \E id \in 1..MaxId, nd \in UpdateDates \cup {NoValue}, na \in UpdateAmounts \cup {NoValue} :
          UpdateInstance(id, nd, na)
    \/ \E id \in 1..MaxId : DeleteInstance(id)
    \/ get_project_financial_data

Spec == Init /\ [][Next]_vars

\* several sessions (scheduler processes, request handlers) run generation at once
NextConc == \E s \in Sessions : Generate(s)

SpecConc == Init /\ [][NextConc]_vars

\* one session; an iteration of a day call may raise
NextFail == Generate(1) \/ GenTemplateFails(1)

SpecFail == Init /\ [][NextFail]_vars

\* the start dates a project may have when its figures are asked for
FinStarts == { MkDate(Y, 1, 1), MkDate(Y, 2, 10), MkDate(Y - 1, 1, 1), NoDate }

\* the budgets a project may carry (Project.budget_monthly, Project.budget_annual)
MonthlyBudgets == { 0, 100 }

AnnualBudgets == { 0, 730 }

\* the manually entered rows a project may have when its figures are asked for
FinLedgers ==
    { {},
      { ManualRow(1, MkDate(Y, 2, 10), "Expense", 200, FALSE) },
      { ManualRow(1, MkDate(Y, 2, 20), "Income", 2500, FALSE),
        ManualRow(2, MkDate(Y, 2, 10), "Expense", 2251, FALSE) },
      { ManualRow(1, MkDate(Y, 2, 20), "Income", 1000, FALSE),
        ManualRow(2, MkDate(Y, 2, 10), "Expense", 900, FALSE) },
      { ManualRow(1, MkDate(Y, 2, 20), "Income", 1000, FALSE),
        ManualRow(2, MkDate(Y, 2, 10), "Expense", 1100, FALSE) } }

\* fund rows ever entered
MaxFundRows == 1

\* the rows drawn from the fund a user may enter: <<template, date, type, amount>>
FundChoices ==
    { <<0, MkDate(Y, 2, 20), "Expense", 50>>,
      <<0, MkDate(Y, 2, 20), "Income", 70>>,
      <<2, MkDate(Y, 2, 15), "Income", 50>>,
      <<1, MkDate(Y, 1, 31), "Expense", 300>> }

\* the rows of a ledger that are not drawn from the fund
FinLedgerOf(txs) == { tx \in txs : ~tx.from_fund }

\* TransactionService.create with from_fund set
create_fund_transaction(c) ==
    /\ AllIdle
    /\ nextId - 1 < Cardinality(FinLedgerOf(transactions)) + MaxFundRows
    /\ transactions' = transactions \cup
          { [id |-> nextId, project_id |-> ProjectId, recurring_template_id |-> c[1],
             tx_date |-> c[2], type |-> c[3], amount |-> c[4],
             category |-> IF c[3] = "Expense" THEN OTHER_CATEGORY ELSE NoCategory,
             is_generated |-> FALSE, from_fund |-> TRUE,
             file_path |-> NoFile, is_exceptional |-> FALSE] }
    /\ nextId' = nextId + 1
    /\ UNCHANGED <<templates, active, sess, contractVars>>
    /\ fin' = NoFin

\* TransactionRepository.delete of a fund row
delete_fund_transaction(id) ==
    /\ AllIdle
    /\ \E tx \in transactions :
          /\ tx.id = id
          /\ tx.from_fund
          /\ transactions' = transactions \ {tx}
    /\ UNCHANGED <<templates, active, nextId, sess, contractVars>>
    /\ fin' = NoFin

\* RecurringTransactionService.deactivate_template between other calls
DeactivateTemplate(t) == AllIdle /\ deactivate_template(t)

\* a project with budgets and a ledger, before its figures are asked for
InitFin ==
    /\ templates \in { f \in [TemplateIds -> UNION { TemplateChoices(i) : i \in TemplateIds }] :
                          \A i \in TemplateIds : f[i] \in TemplateChoices(i) }
    /\ active = [t \in TemplateIds |-> TRUE]
    /\ transactions \in FinLedgers
    /\ nextId = Cardinality(transactions) + 1
    /\ sess = [s \in Sessions |-> IdleSess]
    /\ \E sd \in FinStarts, bm \in MonthlyBudgets, ba \in AnnualBudgets :
          project = [start_date |-> sd, end_date |-> MkDate(Y, 12, 31), is_active |-> TRUE,
                     budget_monthly |-> bm, budget_annual |-> ba]
    /\ today = MkDate(Y, 3, 15)
    /\ fin = NoFin
    /\ periods = {}
    /\ archives = {}
    /\ nextPeriodId = 1
    /\ rsess = [s \in Sessions |-> IdleRoll]
    /\ rlog = <<>>
    /\ resume = NoResume
    /\ reply = NoReply
    /\ store = NoStore

\* the figures are asked for between ledger and template changes
NextFin ==
    \/ get_project_financial_data
    \/ \E c \in FundChoices : create_fund_transaction(c)
    \/ \E id \in 1..(MaxId + MaxFundRows) : delete_fund_transaction(id)
    \/ \E t \in TemplateIds : DeactivateTemplate(t)

SpecFin == InitFin /\ [][NextFin]_vars

\* the start dates template 1 may have: before and after the first target dates
GenStarts == { MkDate(Y, 1, 10), MkDate(Y, 3, 1) }

\* template 1 varies over day and start date, template 2 is the fixed sibling
GenTemplateChoices(id) ==
    IF id = 1
    THEN { Template(dom, sd, NO_END, NoDate, 0, "Expense", 500) :
               dom \in {15, 31}, sd \in GenStarts }
    ELSE TemplateChoices(id)

\* the ledgers generation may find: empty, or a manual row that looks like an
\* occurrence of template 1 (same date, type and amount)
GenLedgers == { {}, { ManualRow(1, MkDate(Y, 1, 15), "Expense", 500, FALSE) } }

\* amount values of RecurringTransactionTemplateUpdate
TemplateAmounts == { 250 }

\* RecurringTransactionService.update_template between other calls
UpdateTemplate(t, amount) == AllIdle /\ update_template(t, amount)

\* templates that start before or after the dates generation is asked for
InitGen ==
    /\ templates \in { f \in [TemplateIds -> UNION { GenTemplateChoices(i) : i \in TemplateIds }] :
                          \A i \in TemplateIds : f[i] \in GenTemplateChoices(i) }
    /\ active = [t \in TemplateIds |-> TRUE]
    /\ transactions \in GenLedgers
    /\ nextId = Cardinality(transactions) + 1
    /\ sess = [s \in Sessions |-> IdleSess]
    /\ project = [start_date |-> MkDate(Y, 1, 1), end_date |-> MkDate(Y, 12, 31),
                  is_active |-> TRUE, budget_monthly |-> 0, budget_annual |-> 0]
    /\ today = MkDate(Y, 3, 15)
    /\ fin = NoFin
    /\ periods = {}
    /\ archives = {}
    /\ nextPeriodId = 1
    /\ rsess = [s \in Sessions |-> IdleRoll]
    /\ rlog = <<>>
    /\ resume = NoResume
    /\ reply = NoReply
    /\ store = NoStore

\* one session generates; templates are switched off and edited between its calls
NextGen ==
    \/ Generate(1)
    \/ \E t \in TemplateIds : DeactivateTemplate(t)
    \/ \E t \in TemplateIds, am \in TemplateAmounts : UpdateTemplate(t, am)

SpecGen == InitGen /\ [][NextGen]_vars

\* day_of_month values of the templates whose occurrences are asked for
OccDays == { 1, 15, 29, 30, 31 }

\* template 1 varies over day and end condition, template 2 is the fixed sibling
OccTemplateChoices(id) ==
    IF id = 1
    THEN { Template(dom, MkDate(Y, 1, 10), e[1], e[2], e[3], "Expense", 500) :
               dom \in OccDays, e \in EndChoices }
    ELSE TemplateChoices(id)

\* start_date values of the request
OccStarts == { MkDate(Y, 1, 10), MkDate(Y, 1, 31), MkDate(Y, 2, 1), MkDate(Y, 11, 20) }

\* months_ahead values of the request (the endpoint takes 1..24)
OccMonths == { 1, 2, 12 }

\* the ledgers the request may find
OccLedgers ==
    { {},
      { [id |-> 1, project_id |-> ProjectId, recurring_template_id |-> 1,
         tx_date |-> MkDate(Y, 1, 15), type |-> "Expense", amount |-> 500,
         category |-> CLEANING, is_generated |-> TRUE, from_fund |-> FALSE,
     file_path |-> NoFile, is_exceptional |-> FALSE] } }

InitOcc ==
    /\ templates \in { f \in [TemplateIds -> UNION { OccTemplateChoices(i) : i \in TemplateIds }] :
                          \A i \in TemplateIds : f[i] \in OccTemplateChoices(i) }
    /\ active = [t \in TemplateIds |-> TRUE]
    /\ transactions \in OccLedgers
    /\ nextId = Cardinality(transactions) + 1
    /\ sess = [s \in Sessions |-> IdleSess]
    /\ project = [start_date |-> MkDate(Y, 1, 1), end_date |-> MkDate(Y, 12, 31),
                  is_active |-> TRUE, budget_monthly |-> 0, budget_annual |-> 0]
    /\ today = MkDate(Y, 3, 15)
    /\ fin = NoFin
    /\ periods = {}
    /\ archives = {}
    /\ nextPeriodId = 1
    /\ rsess = [s \in Sessions |-> IdleRoll]
    /\ rlog = <<>>
    /\ resume = NoResume
    /\ reply = NoReply
    /\ store = NoStore

\* the occurrences of a template are asked for
NextOcc ==
    \E t \in TemplateIds, start_date \in OccStarts, months_ahead \in OccMonths :
        get_future_occurrences(t, start_date, months_ahead)

SpecOcc == InitOcc /\ [][NextOcc]_vars

\* a project row as the dashboard loads it
ProjectRow(id, start_date, budget_monthly, budget_annual) ==
    [id |-> id, start_date |-> start_date, created_at |-> start_date, is_active |-> TRUE,
     budget_monthly |-> budget_monthly, budget_annual |-> budget_annual]

\* the projects tables the dashboard may find: one project, or two projects
\* with budgets of their own
DashProjects ==
    { <<ProjectRow(1, MkDate(Y, 1, 1), bm, ba)>> : bm \in MonthlyBudgets, ba \in AnnualBudgets }
    \cup { <<ProjectRow(1, MkDate(Y, 1, 1), bm1, ba1), ProjectRow(2, MkDate(Y, 2, 10), bm2, ba2)>> :
               bm1 \in MonthlyBudgets, ba1 \in AnnualBudgets,
               bm2 \in MonthlyBudgets, ba2 \in AnnualBudgets }

\* the category budgets the dashboard may find
DashBudgets ==
    { {},
      { [project_id |-> 1, category |-> CLEANING, amount |-> 300,
         start_date |-> MkDate(Y, 1, 1), end_date |-> NoDate, is_active |-> TRUE] } }

\* the fund balances the dashboard may find, by project id
DashFunds == { <<NoFund, NoFund>>, <<-50, 20>> }

\* a ledger row of one of the projects
DashRow(id, project_id, tx_date, type, amount, from_fund, file_path) ==
    [id |-> id, project_id |-> project_id, recurring_template_id |-> 0, tx_date |-> tx_date,
     type |-> type, amount |-> amount,
     category |-> IF type = "Expense" THEN CLEANING ELSE NoCategory,
     is_generated |-> FALSE, from_fund |-> from_fund,
     file_path |-> file_path, is_exceptional |-> FALSE]

\* the ledgers the dashboard may find
DashLedgers ==
    { {},
      { DashRow(1, 1, MkDate(Y, 2, 20), "Expense", 250, FALSE, "proof.pdf"),
        DashRow(2, 2, MkDate(Y, 2, 20), "Expense", 50, FALSE, NoFile) },
      { DashRow(1, 1, MkDate(Y, 2, 20), "Income", 1000, FALSE, "proof.pdf"),
        DashRow(2, 1, MkDate(Y, 2, 21), "Expense", 350, FALSE, NoFile),
        DashRow(3, 2, MkDate(Y, 2, 20), "Expense", 150, TRUE, NoFile) } }

\* the steps that may raise: none, or one step of one iteration
DashFaults == { NoFault } \cup ((1..2) \X SubComputations)

\* a store with projects, budgets, funds and a ledger, before the dashboard is asked for
InitDash ==
    /\ templates \in { f \in [TemplateIds -> UNION { TemplateChoices(i) : i \in TemplateIds }] :
                          \A i \in TemplateIds : /\ f[i] \in TemplateChoices(i)
                                                  /\ f[i].day_of_month = 15
                                                  /\ f[i].end_type = NO_END }
    /\ active = [t \in TemplateIds |-> FALSE]
    /\ transactions \in DashLedgers
    /\ nextId = Cardinality(transactions) + 1
    /\ sess = [s \in Sessions |-> IdleSess]
    /\ project = [start_date |-> MkDate(Y, 1, 1), end_date |-> MkDate(Y, 12, 31),
                  is_active |-> TRUE, budget_monthly |-> 0, budget_annual |-> 0]
    /\ today = MkDate(Y, 3, 15)
    /\ fin = NoFin
    /\ periods = {}
    /\ archives = {}
    /\ nextPeriodId = 1
    /\ rsess = [s \in Sessions |-> IdleRoll]
    /\ rlog = <<>>
    /\ resume = NoResume
    /\ reply = NoReply
    /\ \E ps \in DashProjects, bs \in DashBudgets, fs \in DashFunds :
          store = [projects |-> ps, budgets |-> bs, funds |-> fs]

\* the dashboard is asked for; a step of an iteration that exists may raise
NextDash ==
    \E fault \in DashFaults :
        /\ fault[1] <= Len(active_projects)
        /\ get_dashboard_snapshot(fault)

SpecDash == InitDash /\ [][NextDash]_vars

\* RecurringTransactionService.deactivate_template before the first batch
DeactivateBeforeBatch(t) == resume = NoResume /\ AllIdle /\ deactivate_template(t)

\* one session runs month batches; a batch may be cancelled between day calls
NextBatch ==
    \/ \E ym \in GenMonths : BatchBegin(1, ym)
    \/ MonthDay(1)
    \/ GenTemplate(1)
    \/ GenCommit(1)
    \/ MonthOverflow(1)
    \/ BatchCommit(1)
    \/ BatchCancelled(1)
    \/ \E t \in TemplateIds : DeactivateBeforeBatch(t)

SpecBatch == Init /\ [][NextBatch]_vars

\* the rollover calls of one session
Rollover(s) ==
    \/ RenewBegin(s)
    \/ RenewCheck(s)
    \/ RenewCreate(s)
    \/ RenewArchive(s)
    \/ RenewShift(s)
    \/ \E d \in CloseDates : CloseBegin(s, d)
    \/ CloseCheck(s)
    \/ CloseCreate(s)
    \/ CloseArchive(s)
    \/ CloseShift(s)
    \/ ArchivalFails(s)

\* a project whose contract is about to end or has ended, with its ledger
InitRoll ==
    /\ templates \in { f \in [TemplateIds -> UNION { TemplateChoices(i) : i \in TemplateIds }] :
                          \A i \in TemplateIds : /\ f[i] \in TemplateChoices(i)
                                                  /\ f[i].day_of_month = 15
                                                  /\ f[i].end_type = NO_END }
    /\ active = [t \in TemplateIds |-> TRUE]
    /\ transactions \in LedgerChoices
    /\ nextId = MaxId + 1
    /\ sess = [s \in Sessions |-> IdleSess]
    /\ \E c \in ContractChoices :
          project = [start_date |-> c[1], end_date |-> c[2], is_active |-> TRUE,
                     budget_monthly |-> 0, budget_annual |-> 0]
    /\ today \in TodayChoices
    /\ fin = NoFin
    /\ periods = {}
    /\ archives = {}
    /\ nextPeriodId = 1
    /\ rsess = [s \in Sessions |-> IdleRoll]
    /\ rlog = <<>>
    /\ resume = NoResume
    /\ reply = NoReply
    /\ store = NoStore

\* one session: rollover calls follow each other
NextRoll == Rollover(1)

SpecRoll == InitRoll /\ [][NextRoll]_vars

\* the renewal sweep and requests run rollover for the same project at once
NextRollConc == \E s \in Sessions : Rollover(s)

SpecRollConc == InitRoll /\ [][NextRollConc]_vars

RECURSIVE Renewals(_, _, _)
\* the renewals a contract [start_date, end_date] is behind on the day t
Renewals(start_date, end_date, t) ==
    IF end_date = NoDate \/ end_date > t THEN 0
    ELSE 1 + Renewals(end_date + 1, (end_date + 1) + (end_date - start_date), t)

\* a project whose catch-up fits into the period ids of the model
InitRenew ==
    /\ InitRoll
    /\ Renewals(project.start_date, project.end_date, today) <= MaxPeriodId

\* the renewal sweep calls check_and_renew_contract for the project again and again
NextRenew ==
    \/ RenewBegin(1)
    \/ RenewCheck(1)
    \/ RenewCreate(1)
    \/ RenewArchive(1)
    \/ RenewShift(1)

\* a call that has started runs to its end, and the sweep keeps calling
SpecRenew == InitRenew /\ [][NextRenew]_vars /\ WF_vars(NextRenew)

(***************************************************************************)
(* Properties                                                              *)
(***************************************************************************)
\* rows of template t dated d among txs
Count(txs, t, d) ==
    Cardinality({ tx \in txs : tx.recurring_template_id = t /\ tx.tx_date = d })

\* rows of template t among txs
Occurrences(txs, t) == Cardinality({ tx \in txs : tx.recurring_template_id = t })

\* session s is about to commit and return from generate_transactions_for_date
DateCallEnds(s) ==
    sess[s].pc = "date_loop" /\ sess[s].mode = "date" /\ sess[s].queue = <<>>

\* session s is about to commit the rows of a generation call (day call or month call)
GenerationCommits(s) ==
    sess[s].pc \in {"date_loop", "month_overflow"} /\ sess[s].queue = <<>>

\* C1: sequential idempotence. When a call generate_transactions_for_date(d)
\* returns, every template due on d that had no row for d has exactly one, and
\* a template that already had a row for d got no further one (a repeated call
\* creates nothing).
C1_SequentialIdempotence ==
    [][ \A s \in Sessions :
          (DateCallEnds(s) /\ sess'[s].pc = "idle") =>
             \A t \in get_templates_to_generate(sess[s].target) :
                LET before == Count(transactions, t, sess[s].target)
                    after == Count(transactions', t, sess[s].target)
                IN  /\ (before = 0 => after = 1)
                    /\ (before >= 1 => after = before) ]_vars

\* a repeated call has gone through its loop: the row exists, nothing is pending
C1_Witness ==
    \E s \in Sessions :
        /\ DateCallEnds(s)
        /\ sess[s].pending = <<>>
        /\ \E t \in get_templates_to_generate(sess[s].target) :
              Count(transactions, t, sess[s].target) = 1

\* C2: concurrent generation. Under every interleaving of the calls of several
\* sessions, at most one row per (template, date) is persisted.
C2_ConcurrentAtMostOne ==
    \A t \in TemplateIds : \A tx \in transactions :
        tx.recurring_template_id = t => Count(transactions, t, tx.tx_date) <= 1

\* C3: global uniqueness. No two ledger rows with a template reference share
\* (recurring_template_id, tx_date), whatever generation, instance edits and
\* instance deletions ran.
C3_GlobalUniqueness ==
    \A a \in transactions : \A b \in transactions :
        ( /\ a.id # b.id
          /\ a.recurring_template_id # 0
          /\ a.recurring_template_id = b.recurring_template_id )
        => a.tx_date # b.tx_date

\* the end condition of template t admits an occurrence on d, given the rows txs
EndConditionAdmits(txs, t, d) ==
    \/ templates[t].end_type = NO_END
    \/ templates[t].end_type = ON_DATE /\ d <= templates[t].end_date
    \/ templates[t].end_type = AFTER_OCCURRENCES
          /\ Occurrences(txs, t) < templates[t].max_occurrences

IsLastDayOfMonth(d) == DayOf(d) = DaysInMonth(YearOf(d), MonthOf(d))

\* C4: day-of-month clamping in daily generation. When
\* generate_transactions_for_date(d) returns for the last day d of a month, every
\* active, started, unended template whose day_of_month exceeds the length of
\* that month has a row dated d.
C4_DailyClamping ==
    [][ \A s \in Sessions :
          (DateCallEnds(s) /\ sess'[s].pc = "idle" /\ IsLastDayOfMonth(sess[s].target)) =>
             \A t \in TemplateIds :
                ( /\ active[t]
                  /\ templates[t].start_date <= sess[s].target
                  /\ templates[t].day_of_month > DayOf(sess[s].target)
                  /\ EndConditionAdmits(transactions, t, sess[s].target) )
                => Count(transactions', t, sess[s].target) = 1 ]_vars

\* C5: a template that ends after max_occurrences occurrences never has more
\* rows than that.
C5_AfterOccurrencesLimit ==
    \A t \in TemplateIds :
        templates[t].end_type = AFTER_OCCURRENCES
        => Occurrences(transactions, t) <= templates[t].max_occurrences

\* C6: the On Date end condition. A generation commit inserts no row of an
\* On Date template dated after its end_date, and a daily call for d creates the
\* row of an active, started On Date template whose day matches and that has no
\* row for d exactly when d <= end_date.
C6_OnDateEnd ==
    [][ \A s \in Sessions :
          (GenerationCommits(s) /\ sess'[s].pc # sess[s].pc) =>
             LET new == transactions' \ transactions
                 d == sess[s].target
             IN  /\ \A tx \in new :
                       LET t == tx.recurring_template_id
                       IN  templates[t].end_type = ON_DATE
                           => tx.tx_date <= templates[t].end_date
                 /\ DateCallEnds(s) =>
                       \A t \in TemplateIds :
                          ( /\ templates[t].end_type = ON_DATE
                            /\ active[t]
                            /\ templates[t].start_date <= d
                            /\ templates[t].day_of_month = DayOf(d)
                            /\ Count(transactions, t, d) = 0 )
                          => ( (\E tx \in new : tx.recurring_template_id = t /\ tx.tx_date = d)
                               <=> d <= templates[t].end_date ) ]_vars

\* a generated row dated exactly on its template's end_date
C6_Witness ==
    \E tx \in transactions :
        /\ tx.is_generated
        /\ tx.recurring_template_id # 0
        /\ templates[tx.recurring_template_id].end_type = ON_DATE
        /\ tx.tx_date = templates[tx.recurring_template_id].end_date

\* the rows of a type that lie in the projection window, fund rows excluded
WindowRows(transaction_type) ==
    { tx \in transactions :
        /\ tx.type = transaction_type
        /\ tx.tx_date >= calculate_start_date(project.start_date)
        /\ tx.tx_date <= today
        /\ ~tx.from_fund }

\* the occurrences in the window, of active templates of a type, without a row
Unmaterialized(transaction_type) ==
    UNION { { <<t, d>> : d \in { o \in occurrences_in_window(
                                          t, calculate_start_date(project.start_date), today) :
                                      Count(transactions, t, o) = 0 } } :
               t \in { x \in TemplateIds : templates[x].type = transaction_type /\ active[x] } }

RECURSIVE SumTemplateAmounts(_)
SumTemplateAmounts(pairs) ==
    IF pairs = {} THEN 0
    ELSE LET p == CHOOSE x \in pairs : TRUE
         IN  templates[p[1]].amount + SumTemplateAmounts(pairs \ {p})

\* a total in which every row and every unmaterialized occurrence counts once
CountedOnce(transaction_type) ==
    SumAmounts(WindowRows(transaction_type))
        + SumTemplateAmounts(Unmaterialized(transaction_type))

\* C7: no double counting. The totals returned by get_project_financial_data
\* hold every ledger row of the window once (a materialized occurrence with its
\* own, possibly overridden amount) and the template amount once for every
\* occurrence without a row, plus the budget income on the income side.
C7_NoDoubleCounting ==
    fin # NoFin =>
        /\ fin.expense_month_to_date = days_in_year * CountedOnce("Expense")
        /\ fin.income_month_to_date =
              days_in_year * CountedOnce("Income")
                 + budget_income(calculate_start_date(project.start_date))

\* stored periods with exactly these dates
CountPeriods(start_date, end_date) == Cardinality(get_by_exact_dates(start_date, end_date))

\* two check_and_renew_contract calls ran back to back, with the same today, and
\* the first renewed a contract with start <= end <= today
TwoCallsOnEnded ==
    /\ Len(rlog) = 2
    /\ rlog[1].renewed
    /\ rlog[1].before[1] <= rlog[1].before[2]

\* C8 as stated: rollover determinism. For an ended contract (start <= end <=
\* today) two consecutive check_and_renew_contract calls produce exactly one
\* ContractPeriod and shift the dates once; the second call is a no-op.
C8_SecondCallNoOp ==
    TwoCallsOnEnded =>
        LET new == next_period_dates(rlog[1].before[1], rlog[1].before[2])
        IN  /\ CountPeriods(rlog[1].before[1], rlog[1].before[2]) = 1
            /\ ~rlog[2].renewed
            /\ ~rlog[2].created
            /\ project.start_date = new.start_date
            /\ project.end_date = new.end_date

\* C8 amended: for an ended contract (start <= end <= today) two consecutive
\* check_and_renew_contract calls leave exactly one ContractPeriod for the ended
\* dates; the second call is a no-op (creates nothing, dates shifted once)
\* exactly when the renewed end date is after today, and otherwise renews the
\* next period as well (one ContractPeriod for it, dates shifted a second time).
C8_SecondCallNoOpWhenOpen ==
    TwoCallsOnEnded =>
        LET new == next_period_dates(rlog[1].before[1], rlog[1].before[2])
            again == next_period_dates(new.start_date, new.end_date)
        IN  /\ CountPeriods(rlog[1].before[1], rlog[1].before[2]) = 1
            /\ rlog[2].before = <<new.start_date, new.end_date>>
            /\ IF new.end_date > today
               THEN /\ ~rlog[2].renewed
                    /\ ~rlog[2].created
                    /\ project.start_date = new.start_date
                    /\ project.end_date = new.end_date
               ELSE /\ rlog[2].renewed
                    /\ CountPeriods(new.start_date, new.end_date) = 1
                    /\ project.start_date = again.start_date
                    /\ project.end_date = again.end_date

\* C8 witness: a renewal of an ended contract was followed by a second call
\* that found the renewed contract still open
C8_Witness ==
    /\ TwoCallsOnEnded
    /\ rlog[1].created
    /\ ~rlog[2].renewed
    /\ project.end_date > today

\* C9: at most one ContractPeriod exists per (project, start_date, end_date),
\* also when rollover calls for the project run concurrently.
C9_OnePeriodPerDates ==
    \A p1 \in periods, p2 \in periods :
        (p1.start_date = p2.start_date /\ p1.end_date = p2.end_date) => p1.id = p2.id

\* C10: archive before shift. A check_and_renew_contract call in which an
\* archival step fails leaves the project dates as they were, and whenever a call
\* (a retry included) shifts the dates, a ContractPeriod with the totals of the
\* period being left is already stored.
C10_ArchiveBeforeShift ==
    [][ \A s \in Sessions :
          /\ (rsess[s].pc \in {"renew_create", "renew_archive"} /\ rsess'[s].pc = "idle") =>
                /\ project'.start_date = rsess[s].p.start_date
                /\ project'.end_date = rsess[s].p.end_date
          /\ (rsess[s].pc = "renew_shift" /\ rsess'[s].pc = "idle") =>
                \E per \in periods :
                   LET summary == calculate_financial_summary(project.start_date,
                                                              project.end_date)
                   IN  /\ per.start_date = project.start_date
                       /\ per.end_date = project.end_date
                       /\ per.total_income = summary.income
                       /\ per.total_expense = summary.expense ]_vars

\* C10 witness: the read-only archive entry failed after the period was stored,
\* and the retry is about to shift the dates
C10_Witness ==
    \E s \in Sessions :
        /\ rsess[s].pc = "renew_shift"
        /\ ~rsess[s].created
        /\ \E per \in get_by_exact_dates(rsess[s].p.start_date, rsess[s].p.end_date) :
               /\ per.total_income > 0
               /\ ~\E a \in archives : a.contract_period_id = per.id

\* C11: per-template failure isolation. When one template's iteration fails in
\* a generate_transactions_for_date run with several due templates, the run
\* still leaves an entry for every other due template.
C11_FailureIsolation ==
    [][ \A s \in Sessions :
          ( /\ sess[s].pc = "date_loop"
            /\ sess[s].mode = "date"
            /\ sess[s].queue # <<>>
            /\ sess'[s].pc = "idle" ) =>
             \A t \in get_templates_to_generate(sess[s].target) \ {Head(sess[s].queue)} :
                Count(transactions', t, sess[s].target) >= 1 ]_vars

\* get_project_financial_data has returned and nothing changed since
Returned == fin.status_color # "none"

\* actual plus recurring income, in 1/365 units, for each value the recurring
\* amount may take
IncomeBeforeBudget ==
    LET start == calculate_start_date(project.start_date)
    IN  { days_in_year * (actual_sum("Income", start, today) + ri) :
             ri \in calculate_recurring_transactions_amount(start, today, "Income") }

\* C12: monthly budget income. With budget_monthly > 0 the budget income is
\* budget_monthly times the inclusive number of calendar months from the month
\* of max(project.start_date, periodStart) to the month of the as-of date,
\* whatever the project start date.
C12_MonthlyBudgetIncome ==
    (Returned /\ project.budget_monthly > 0) =>
        LET periodStart == calculate_start_date(project.start_date)
        IN  fin.income_month_to_date
              - days_in_year * project.budget_monthly * month_count(periodStart, today)
                 \in IncomeBeforeBudget

\* C13: zero-income convention. Total income 0 with positive total expense
\* gives profit_percent -100 (tenths: -1000) and colour red; positive income
\* gives profit / income * 100 rounded to a tenth.
C13_ZeroIncomeConvention ==
    Returned =>
        /\ (fin.income_month_to_date = 0 /\ fin.expense_month_to_date > 0) =>
              (fin.profit_percent = -1000 /\ fin.status_color = "red")
        /\ fin.income_month_to_date > 0 =>
              LET diff == fin.profit_percent * fin.income_month_to_date
                             - fin.total_value * 1000
              IN  2 * diff <= fin.income_month_to_date /\ 2 * diff >= -fin.income_month_to_date

\* C16: the colour is a function of the profit_percent returned with it: green
\* iff profit_percent >= 10, red iff profit_percent <= -10, yellow otherwise.
C16_ColourMatchesPercent ==
    Returned =>
        /\ fin.status_color = "green" <=> fin.profit_percent >= 100
        /\ fin.status_color = "red" <=> fin.profit_percent <= -100
        /\ fin.status_color = "yellow" <=>
              (fin.profit_percent < 100 /\ fin.profit_percent > -100)

\* C17: budget precedence. With a monthly budget set the budget income is the
\* monthly figure alone, whatever the annual budget; the day-prorated annual
\* figure is used only when no monthly budget is set.
C17_BudgetPrecedence ==
    Returned =>
        LET start == calculate_start_date(project.start_date)
            start_month == IF project.start_date # NoDate THEN project.start_date ELSE start
            monthly == days_in_year * project.budget_monthly * month_count(start_month, today)
            annual == project.budget_annual * ((today - start) + 1)
        IN  IF project.budget_monthly > 0
            THEN fin.income_month_to_date - monthly \in IncomeBeforeBudget
            ELSE IF project.budget_annual > 0
            THEN fin.income_month_to_date - annual \in IncomeBeforeBudget
            ELSE fin.income_month_to_date \in IncomeBeforeBudget

\* C17 witness: figures were returned for a project with both budgets set
C17_Witness ==
    /\ Returned
    /\ project.budget_monthly > 0
    /\ project.budget_annual > 0
    /\ project.start_date # NoDate

\* C18: fund-sourced exclusion. Adding or removing a row flagged from_fund,
\* with or without a template reference, leaves the figures
\* get_project_financial_data returns unchanged.
C18_FundRowsExcluded ==
    [][ ( /\ transactions' # transactions
          /\ FinLedgerOf(transactions') = FinLedgerOf(transactions) ) =>
             financial_results' = financial_results ]_vars

\* C14: rollover date shift. A renewal of a contract with dates (s, e) leaves
\* the project with start_date = e + 1 day and end_date = (e + 1 day) + (e - s):
\* the new period starts the day after the old one ended and has its length.
C14_DateShift ==
    [][ \A s \in Sessions :
          (rsess[s].pc = "renew_shift" /\ rsess'[s].pc = "idle") =>
             /\ project'.start_date = project.end_date + 1
             /\ project'.end_date = (project.end_date + 1)
                                       + (project.end_date - project.start_date)
             /\ project'.end_date - project'.start_date
                   = project.end_date - project.start_date ]_vars

\* C14 witness: a contract of several days was renewed
C14_Witness ==
    /\ Len(rlog) > 0
    /\ rlog[Len(rlog)].renewed
    /\ rlog[Len(rlog)].before[1] < rlog[Len(rlog)].before[2]
    /\ project.start_date = rlog[Len(rlog)].before[2] + 1
    /\ \A s \in Sessions : rsess[s].pc = "idle"

\* the contract is open: no end date, or an end date after today
Open == project.end_date = NoDate \/ project.end_date > today

\* C15: rollover only from Ended. On an open contract check_and_renew_contract
\* starts no renewal, creates no ContractPeriod and leaves the dates alone; a
\* call returns without renewing only when the contract is open, so a contract
\* whose end_date is today is renewed.
C15_OnlyFromEnded ==
    [][ \A s \in Sessions :
          rsess[s].pc = "idle" =>
             /\ Open => rsess'[s].op # "check_and_renew_contract"
             /\ ( /\ rlog' # rlog
                  /\ Len(rlog') > 0
                  /\ ~rlog'[Len(rlog')].renewed ) =>
                   (Open /\ project' = project /\ periods' = periods) ]_vars

\* C15 witness: a call on a contract without end date returned without
\* renewing, and no period exists
C15_Witness ==
    /\ Len(rlog) > 0
    /\ ~rlog[Len(rlog)].renewed
    /\ project.end_date = NoDate
    /\ periods = {}

\* the (template, date) pairs of the rows txs
Pairs(txs) == { <<tx.recurring_template_id, tx.tx_date>> : tx \in txs }

\* the (template, date) pairs an uninterrupted month batch is to cover: the due
\* days each day call selects, and the last day for a template whose
\* day_of_month the month does not have
BatchDue(ym) ==
    LET last == MkDate(ym[1], ym[2], last_day(ym))
        days == { MkDate(ym[1], ym[2], k) : k \in 1..last_day(ym) }
    IN  UNION { { <<t, d>> : t \in get_templates_to_generate(d) } : d \in days }
        \cup { <<t, last>> : t \in { x \in TemplateIds :
                                        /\ active[x]
                                        /\ templates[x].day_of_month > last_day(ym)
                                        /\ templates[x].start_date <= last
                                        /\ should_create(x, last) } }

\* C19: resumable batch generation. A month batch that has run to completion,
\* in one run or re-run after having been cancelled between day calls, leaves
\* the ledger it started from plus exactly one row for every due (template,
\* date) of the month that had none: the same set either way, no duplicate, no
\* missing entry.
C19_ResumableBatch ==
    resume.done =>
        /\ resume.before \subseteq transactions
        /\ Pairs(transactions) = Pairs(resume.before) \cup BatchDue(resume.ym)
        /\ \A p \in Pairs(transactions) \ Pairs(resume.before) :
              Count(transactions, p[1], p[2]) = 1

\* C19 witness: a batch cancelled after a day call had committed a row was
\* re-run to completion and added a further row
C19_Witness ==
    /\ resume.done
    /\ resume.resumed
    /\ Cardinality(transactions \ resume.before) >= 2

\* rows of template t dated in the month ym among txs
InMonth(txs, t, ym) ==
    Cardinality({ tx \in txs : /\ tx.recurring_template_id = t
                               /\ YearOf(tx.tx_date) = ym[1]
                               /\ MonthOf(tx.tx_date) = ym[2] })

\* template t is to fire clamped in the month of the batch session s runs
Clamped(s, t) ==
    LET last == MkDate(sess[s].ym[1], sess[s].ym[2], last_day(sess[s].ym))
    IN  /\ \E i \in 1..Len(sess[s].all) : sess[s].all[i] = t
        /\ templates[t].day_of_month > last_day(sess[s].ym)
        /\ templates[t].start_date <= last
        /\ EndConditionAdmits(transactions, t, last)

\* C20: the month batch fires a clamped template exactly once. When
\* generate_transactions_for_month returns, every active, started, unended
\* template whose day_of_month the month does not have has exactly one row in
\* the month, on its last day; a day call of the batch never creates one for
\* it, and a batch that finds the row adds none.
C20_ClampedOnce ==
    [][ \A s \in Sessions :
          /\ (sess[s].pc = "date_loop" /\ sess[s].mode = "month" /\ sess'[s].pc = "month_days") =>
                \A t \in TemplateIds :
                   templates[t].day_of_month > last_day(sess[s].ym) =>
                      InMonth(transactions', t, sess[s].ym) = InMonth(transactions, t, sess[s].ym)
          /\ (sess[s].pc = "month_overflow" /\ sess'[s].pc = "idle") =>
                \A t \in TemplateIds :
                   Clamped(s, t) =>
                      LET last == MkDate(sess[s].ym[1], sess[s].ym[2], last_day(sess[s].ym))
                      IN  /\ Count(transactions', t, last) = 1
                          /\ InMonth(transactions', t, sess[s].ym) = 1
                          /\ Count(transactions, t, last) = 1 =>
                                transactions' = transactions ]_vars

\* C20 witness: the batch of a month shorter than a template's day_of_month is
\* re-run with the clamped row in place, and has nothing to add
C20_Witness ==
    \E s \in Sessions, t \in TemplateIds :
        /\ sess[s].pc = "month_overflow"
        /\ sess[s].queue = <<>>
        /\ sess[s].pending = <<>>
        /\ Clamped(s, t)
        /\ Count(transactions, t, MkDate(sess[s].ym[1], sess[s].ym[2], last_day(sess[s].ym))) = 1

\* C21: selection guard. Every row a generation step adds belongs to a template
\* that is active when the row is made and is dated on or after that template's
\* start_date; a step that deactivates a template leaves the ledger as it was.
C21_SelectionGuard ==
    [][ /\ \A tx \in transactions' \ transactions :
              /\ active[tx.recurring_template_id]
              /\ tx.tx_date >= templates[tx.recurring_template_id].start_date
        /\ (active' # active => transactions' = transactions) ]_vars

\* a day call is about to commit a row for one template while another template
\* with the same day, already started, is switched off and gets none
C21_Witness ==
    \E s \in Sessions :
        /\ DateCallEnds(s)
        /\ Len(sess[s].pending) = 1
        /\ \E t \in TemplateIds :
              /\ ~active[t]
              /\ templates[t].day_of_month = DayOf(sess[s].target)
              /\ templates[t].start_date <= sess[s].target
              /\ ~existing_transaction(t, sess[s].target)

\* the date the rows a generation call of session s is about to commit are
\* made for: the target date of a day call, the last day of the month for the
\* overflow pass
CommitDate(s) ==
    IF sess[s].pc = "date_loop" THEN sess[s].target
    ELSE MkDate(sess[s].ym[1], sess[s].ym[2], last_day(sess[s].ym))

\* C22: content of a generated entry. Every row a generation call adds has
\* is_generated set, refers to its template, is dated on the target date and
\* carries the project, type, amount and category the template has at that
\* time; rows without a template reference are neither added nor changed.
C22_GeneratedContent ==
    [][ \A s \in Sessions :
          (GenerationCommits(s) /\ sess'[s] # sess[s]) =>
             /\ \A tx \in transactions' \ transactions :
                   /\ tx.is_generated
                   /\ tx.recurring_template_id \in TemplateIds
                   /\ tx.tx_date = CommitDate(s)
                   /\ tx.project_id = templates[tx.recurring_template_id].project_id
                   /\ tx.type = templates[tx.recurring_template_id].type
                   /\ tx.amount = templates[tx.recurring_template_id].amount
                   /\ tx.category = templates[tx.recurring_template_id].category
             /\ { tx \in transactions' : tx.recurring_template_id = 0 }
                   = { tx \in transactions : tx.recurring_template_id = 0 } ]_vars

\* a row generated after its template's amount was edited stands next to a
\* manual row of the ledger
C22_Witness ==
    /\ \E tx \in transactions :
          /\ tx.is_generated
          /\ tx.amount \in TemplateAmounts
          /\ templates[tx.recurring_template_id].amount = tx.amount
    /\ \E tx \in transactions : tx.recurring_template_id = 0

\* the month of the first occurrence on or after start_date
FirstOccurrenceMonth(start_date, day_of_month) ==
    IF DayOf(start_date) > day_of_month
    THEN MonthIndex(start_date) + 1 ELSE MonthIndex(start_date)

\* C23: next-occurrence clamping. For a No End template the reply of
\* get_future_occurrences(template, start, months_ahead) is not an error and has
\* months_ahead occurrences, one in each consecutive month, each on
\* day_of_month or on the last day of a month that is shorter.
C23_FutureOccurrences ==
    (reply.op = "get_future_occurrences" /\ templates[reply.template_id].end_type = NO_END) =>
        LET day_of_month == templates[reply.template_id].day_of_month
            first == FirstOccurrenceMonth(reply.start_date, day_of_month)
        IN  /\ ~reply.result.raised
            /\ Len(reply.result.occurrences) = reply.months_ahead
            /\ \A i \in 1..Len(reply.result.occurrences) :
                  reply.result.occurrences[i] = occurrence_date(first + i - 1, day_of_month)

\* the reply of a dashboard request in which no step raised
DashboardAnswered == reply.op = "get_dashboard_snapshot" /\ reply.fault = NoFault

\* the ids in a list of the reply
ListedIds(list) == { list[k] : k \in 1..Len(list) }

\* what the loop computes for project p from p's own row
OwnFigures(p) == project_figures(p, p, {})

\* C24: budget alert thresholds. In the reply of the dashboard a project is in
\* budget_overrun iff it has a budget and its expenses exceed it, in
\* budget_warning iff it has a budget and its expenses are at least 70% and at
\* most 100% of it, never in both, and in neither without a budget.
C24_AlertThresholds ==
    DashboardAnswered =>
        \A i \in 1..Len(active_projects) :
            LET p == active_projects[i]
                start == IF p.start_date # NoDate THEN p.start_date ELSE minus_one_year(today)
                budget == yearly_budget(p, start)
                consumed == days_in_year * dashboard_sum(p.id, "Expense", start, today)
            IN  /\ (p.id \in ListedIds(reply.result.budget_overrun))
                       <=> (budget > 0 /\ consumed > budget)
                /\ (p.id \in ListedIds(reply.result.budget_warning))
                       <=> (budget > 0 /\ consumed * 100 >= 70 * budget /\ consumed <= budget)
                /\ ~ ( /\ p.id \in ListedIds(reply.result.budget_overrun)
                       /\ p.id \in ListedIds(reply.result.budget_warning) )

\* C25: best-effort dashboard. When one step of one iteration raises, the
\* call still returns, its reply lists every active project, and the figures
\* of the other projects are those of a call in which nothing raised.
C25_BestEffort ==
    (reply.op = "get_dashboard_snapshot" /\ reply.fault # NoFault) =>
        /\ ~reply.result.raised
        /\ Len(reply.result.projects) = Len(active_projects)
        /\ \A i \in 1..Len(active_projects) :
              i # reply.fault[1] =>
                 reply.result.projects[i] = dashboard_snapshot(NoFault).projects[i]

\* C28: per-project attribution. In the reply of the dashboard the figures of
\* each project are computed from that project's own budget fields, start date
\* and id, and a project id is in an alert list iff that project meets the
\* condition of the list.
C28_OwnAttribution ==
    DashboardAnswered =>
        \A i \in 1..Len(active_projects) :
            LET p == active_projects[i]
                own == OwnFigures(p)
            IN  /\ reply.result.projects[i].income_month_to_date = own.income_month_to_date
                /\ reply.result.projects[i].budget_monthly = p.budget_monthly
                /\ reply.result.projects[i].budget_annual = p.budget_annual
                /\ (p.id \in ListedIds(reply.result.budget_overrun)) <=> own.budget_overrun
                /\ (p.id \in ListedIds(reply.result.budget_warning)) <=> own.budget_warning
                /\ (p.id \in ListedIds(reply.result.missing_proof)) <=> own.missing_proof
                /\ (p.id \in ListedIds(reply.result.unpaid_recurring)) <=> own.unpaid_recurring
                /\ reply.result.category_budget_alerts[i] = own.category_budget_alerts

\* the totals of the projection for a type restricted to [start_date, end_date]:
\* the rows of the range plus the recurring amount of the range (the projects
\* of the rollover scenarios carry no budget)
ProjectionTotals(transaction_type, start_date, end_date) ==
    { actual_sum(transaction_type, start_date, end_date) + r :
         r \in calculate_recurring_transactions_amount(start_date, end_date, transaction_type) }

\* C26: archived totals come from the projection. The total_income and
\* total_expense of every stored contract period are the projection's totals
\* for the dates of the period (rows of the range, fund rows excluded, plus
\* the recurring projection of the range), and total_profit is their difference.
C26_ArchivedTotals ==
    \A per \in periods :
        /\ per.total_income \in ProjectionTotals("Income", per.start_date, per.end_date)
        /\ per.total_expense \in ProjectionTotals("Expense", per.start_date, per.end_date)
        /\ per.total_profit = per.total_income - per.total_expense

\* the stored periods neither overlap nor leave a gap: each but the earliest
\* starts on the day after another one ends
Contiguous ==
    /\ \A p, q \in periods :
          p # q => (p.end_date < q.start_date \/ q.end_date < p.start_date)
    /\ \A p \in periods :
          \/ \A q \in periods : p.start_date <= q.start_date
          \/ \E q \in periods : q.end_date + 1 = p.start_date

\* C27: rollover catch-up terminates. Every check_and_renew_contract call on
\* an ended contract stores one period for the dates it found, none for them
\* before, and moves end_date forward by (end_date - start_date) + 1 days; a
\* call on an open contract changes nothing; the stored periods are contiguous
\* and do not overlap; and repeated calls lead to a contract that stays open.
C27_CatchUpTerminates ==
    /\ [][ \A s \in Sessions :
              (rsess[s].pc = "renew_shift" /\ rsess'[s].pc = "idle") =>
                 /\ rsess[s].created
                 /\ CountPeriods(project.start_date, project.end_date) = 1
                 /\ project'.end_date > project.end_date
                 /\ project'.end_date
                       = project.end_date + (project.end_date - project.start_date) + 1 ]_vars
    /\ [][ Open => (project' = project /\ periods' = periods) ]_vars
    /\ []Contiguous
    /\ <>[]Open

\* the catch-up took two renewals: two periods are stored and the contract is open
C27_Witness ==
    /\ Cardinality(periods) >= 2
    /\ Open
    /\ \A s \in Sessions : rsess[s].pc = "idle"
    /\ Len(rlog) > 0
    /\ ~rlog[Len(rlog)].renewed

\* C29: contract dates stay well-formed. After any sequence of
\* check_and_renew_contract and close_year_manually calls the project has
\* start_date <= end_date and so has every stored contract period.
C29_DatesWellFormed ==
    /\ (project.start_date # NoDate /\ project.end_date # NoDate)
          => project.start_date <= project.end_date
    /\ \A per \in periods : per.start_date <= per.end_date

\* C30: projection respects the occurrence limit. When the figures of the
\* project have been computed, the occurrences that
\* calculate_recurring_transactions_amount counted for an active template with
\* end_type After Occurrences are at most max_occurrences.
C30_ProjectionOccurrenceLimit ==
    Returned =>
        \A t \in TemplateIds :
            (active[t] /\ templates[t].end_type = AFTER_OCCURRENCES) =>
                Cardinality(occurrences_in_window(t, calculate_start_date(project.start_date),
                                                  today))
                    <= templates[t].max_occurrences

====
